---- MODULE Spec2Model ----
(***************************************************************************)
(* The job lifecycle engine of laminar (src/src/laminar.cpp): the queue,   *)
(* the dispatcher, the context registry with its executor accounting, the  *)
(* configuration loader, the builds table and the client notifications.    *)
(* Every handler runs to completion on the single-threaded event loop, so  *)
(* each handler is one action.                                             *)
(***************************************************************************)
EXTENDS Integers, Sequences, FiniteSets, TLC

\* ------------------------------------------------------------------ bounds

\* successful queueJob calls in one behaviour
MaxRuns == 2
\* builds rows of job alpha already in the database when the process starts
MaxPre == 1

\* ------------------------------------------------- the world outside the core

\* jobs with a cfg/jobs/<name>.run script
RunFiles == {"alpha", "beta"}
\* job names clients submit ("gamma" has no .run script)
JobNames == RunFiles \cup {"gamma"}
\* names of the cfg/contexts/<name>.conf files that may exist
CtxFileNames == {"ctx1", "ctx2"}

\* the characters of every name and pattern that occurs
Chars ==
    ("alpha" :> <<"a", "l", "p", "h", "a">>) @@
    ("beta" :> <<"b", "e", "t", "a">>) @@
    ("gamma" :> <<"g", "a", "m", "m", "a">>) @@
    ("ctx1" :> <<"c", "t", "x", "1">>) @@
    ("ctx2" :> <<"c", "t", "x", "2">>) @@
    ("default" :> <<"d", "e", "f", "a", "u", "l", "t">>) @@
    ("b*" :> <<"b", "*">>)

\* what each context .conf file may hold when it exists: a StringMap, in
\* which a key may be missing
CtxConfs ==
    ("ctx1" :> { [EXECUTORS |-> 1], [EXECUTORS |-> 2] }) @@
    ("ctx2" :> { [JOBS |-> <<"b*">>] })

\* what each job .conf file may hold when it exists
JobConfs ==
    ("alpha" :> { [DESCRIPTION |-> "d"], [CONTEXTS |-> <<"ctx1">>] }) @@
    ("beta" :> {})

\* the ways to fill some of the files named in D, each from its choices
Files(D, choices) ==
    UNION { { f \in [S -> UNION { choices[n] : n \in S }] : \A n \in S : f[n] \in choices[n] }
            : S \in SUBSET D }

\* the configuration trees: the files under cfg/contexts and cfg/jobs
ConfigTrees ==
    [contexts : Files(CtxFileNames, CtxConfs), jobs : Files(RunFiles, JobConfs)]

\* RunState, as the builds table stores it; NULL for a column not yet set
NULL == -1
Results == {"success", "failed"}
\* the output column of a row before the run's log is written to it
NoOutput == <<"NULL">>

\* ---------------------------------------------------------------- helpers

Range(s) == { s[i] : i \in DOMAIN s }

Max(S) == CHOOSE x \in S : \A y \in S : y <= x

Min(S) == CHOOSE x \in S : \A y \in S : x <= y

\* StringMap::get(key, default)
ConfGet(conf, key, dflt) == IF key \in DOMAIN conf THEN conf[key] ELSE dflt

\* the getline(iss, item, ',') loops: a value is held as the list of its
\* comma-separated items, and the loop inserts each item into a set
SplitCommas(items) == Range(items)

RECURSIVE Glob(_, _)
Glob(p, s) ==
    IF p = <<>> THEN s = <<>>
    ELSE IF Head(p) = "*" THEN Glob(Tail(p), s) \/ (s # <<>> /\ Glob(p, Tail(s)))
    ELSE IF s = <<>> THEN FALSE
    ELSE (Head(p) = "?" \/ Head(p) = Head(s)) /\ Glob(Tail(p), Tail(s))

FNM_NOMATCH == 1

\* fnmatch(3) on the patterns used here: literals, ? and *
fnmatch(p, s) == IF Glob(Chars[p], Chars[s]) THEN 0 ELSE FNM_NOMATCH

\* ------------------------------------------------------------------ state

VARIABLES
    cfg,          \* the configuration files on disk, as last read
    contexts,     \* Laminar::contexts: context name -> Context object
    ctxHeap,      \* the Context objects alive: id -> fields
    jobContexts,  \* Laminar::jobContexts: job name -> set of context patterns
    buildNums,    \* Laminar::buildNums: job name -> last build number (0: no entry)
    queuedJobs,   \* Laminar::queuedJobs: the runs waiting, head first
    activeJobs,   \* Laminar::activeJobs: the runs started, in insertion order
    builds,       \* the rows of the builds table
    events,       \* what http->notifyEvent was called with, in order
    jobDescriptions, \* Laminar::jobDescriptions: job name -> description
    jobGroups,    \* Laminar::jobGroups: group label -> job name pattern
    numKeepRunDirs, \* Laminar::numKeepRunDirs
    rundirs,      \* the directories run/<name>/<build> that exist: <<name, build>>
    latest,       \* the symlinks archive/<name>/latest: job name -> build
    timers,       \* the timeout tasks attached to the running tasks: <<name, build>>
    logEvents     \* what http->notifyLog was called with, in order

vars == <<cfg, contexts, ctxHeap, jobContexts, buildNums, queuedJobs, activeJobs,
          builds, events, jobDescriptions, jobGroups, numKeepRunDirs, rundirs,
          latest, timers, logEvents>>

\* the Laminar object with the database and the event channel, as one value
Self ==
    [cfg |-> cfg, contexts |-> contexts, ctxHeap |-> ctxHeap, jobContexts |-> jobContexts,
     buildNums |-> buildNums, queuedJobs |-> queuedJobs, activeJobs |-> activeJobs,
     builds |-> builds, events |-> events, jobDescriptions |-> jobDescriptions,
     jobGroups |-> jobGroups, numKeepRunDirs |-> numKeepRunDirs, rundirs |-> rundirs,
     latest |-> latest, timers |-> timers, logEvents |-> logEvents]

Becomes(st) ==
    /\ contexts' = st.contexts
    /\ ctxHeap' = st.ctxHeap
    /\ jobContexts' = st.jobContexts
    /\ buildNums' = st.buildNums
    /\ queuedJobs' = st.queuedJobs
    /\ activeJobs' = st.activeJobs
    /\ builds' = st.builds
    /\ events' = st.events
    /\ jobDescriptions' = st.jobDescriptions
    /\ jobGroups' = st.jobGroups
    /\ numKeepRunDirs' = st.numKeepRunDirs
    /\ rundirs' = st.rundirs
    /\ latest' = st.latest
    /\ timers' = st.timers
    /\ logEvents' = st.logEvents

\* the names a context can have, in a fixed order
CtxNames == <<"ctx1", "ctx2", "default">>

\* Context objects are held by shared_ptr: one lives while the registry or a
\* run refers to it
CtxIds == 1 .. (2 * Len(CtxNames) + MaxRuns)

Referenced(st) ==
    Range(st.contexts) \cup { st.activeJobs[i].context : i \in DOMAIN st.activeJobs }

NewCtxId(st) == Min(CtxIds \ (DOMAIN st.ctxHeap))

\* The end of a handler: Context objects nothing refers to are destroyed, and
\* the ones left are renumbered (an object's address carries no meaning): the
\* registry's object of the k-th name is k, and the objects only runs refer
\* to follow in the order of the first run in activeJobs that holds them
Release(st) ==
    LET reg == Range(st.contexts)
        det == Referenced(st) \ reg
        FirstRef(id) == Min({ i \in DOMAIN st.activeJobs : st.activeJobs[i].context = id })
        NameOf(id) == CHOOSE n \in DOMAIN st.contexts : st.contexts[n] = id
        IndexOf(n) == CHOOSE k \in DOMAIN CtxNames : CtxNames[k] = n
        NewId(id) ==
            IF id \in reg THEN IndexOf(NameOf(id))
            ELSE Len(CtxNames) + Cardinality({ j \in det : FirstRef(j) <= FirstRef(id) })
        OldId(k) == CHOOSE id \in Referenced(st) : NewId(id) = k
    IN [st EXCEPT !.contexts = [n \in DOMAIN st.contexts |-> NewId(st.contexts[n])],
                  !.ctxHeap = [k \in { NewId(id) : id \in Referenced(st) } |-> st.ctxHeap[OldId(k)]],
                  !.activeJobs = [i \in DOMAIN st.activeJobs |->
                                    [st.activeJobs[i] EXCEPT !.context = NewId(@)]]]

\* time(nullptr): a logical clock, one tick per notification sent
Now(st) == Len(st.events) + 1

\* ------------------------------------------------------ configuration loader

EmptyMap == [x \in {} |-> 0]

\* a Context as its constructor leaves it
NewContext == [name |-> "", numExecutors |-> 0, busyExecutors |-> 0, jobPatterns |-> {}]

\* EXECUTORS when the file does not set it, and of the implicit default context
DefaultExecutors == 6

\* a loader that makes a new Context for every file it reads
loadContextFileFresh(st, name, conf) ==
    LET id == NewCtxId(st)
        ctx == [NewContext EXCEPT !.name = name,
                                  !.numExecutors = ConfGet(conf, "EXECUTORS", DefaultExecutors),
                                  !.jobPatterns = SplitCommas(ConfGet(conf, "JOBS", <<>>))]
    IN [st EXCEPT !.contexts = (name :> id) @@ [n \in DOMAIN st.contexts \ {name} |-> st.contexts[n]],
                  !.ctxHeap = (id :> ctx) @@ st.ctxHeap]

\* a loader that forgets the busy executors of the Context it updates
loadContextFileResetBusy(st, name, conf) ==
    LET isNew == name \notin DOMAIN st.contexts
        id == IF isNew THEN NewCtxId(st) ELSE st.contexts[name]
        ctx == [NewContext EXCEPT !.name = name,
                                  !.numExecutors = ConfGet(conf, "EXECUTORS", DefaultExecutors),
                                  !.jobPatterns = SplitCommas(ConfGet(conf, "JOBS", <<>>))]
    IN [st EXCEPT !.contexts = (name :> id) @@ st.contexts,
                  !.ctxHeap = (id :> ctx) @@ st.ctxHeap]

\* one cfg/contexts/<name>.conf entry: the Context of that name is created if
\* there is none and otherwise mutated in place
loadContextFile(st, name, conf) ==
    LET isNew == name \notin DOMAIN st.contexts
        id == IF isNew THEN NewCtxId(st) ELSE st.contexts[name]
        old == IF isNew THEN NewContext ELSE st.ctxHeap[id]
        ctx == [old EXCEPT !.name = name,
                           !.numExecutors = ConfGet(conf, "EXECUTORS", DefaultExecutors),
                           !.jobPatterns = SplitCommas(ConfGet(conf, "JOBS", <<>>))]
    IN [st EXCEPT !.contexts = (name :> id) @@ st.contexts,
                  !.ctxHeap = (id :> ctx) @@ st.ctxHeap]

RECURSIVE loadContextFiles(_, _, _)
loadContextFiles(st, files, todo) ==
    IF todo = {} THEN st
    ELSE LET name == CHOOSE n \in todo : TRUE
         IN loadContextFiles(loadContextFile(st, name, files[name]), files, todo \ {name})

\* an erase loop without the exception for the default context
eraseUnknownContextsDropDefault(st, knownContexts) ==
    [st EXCEPT !.contexts = [n \in DOMAIN st.contexts \cap knownContexts |-> st.contexts[n]]]

\* remove any contexts whose config files disappeared
eraseUnknownContexts(st, knownContexts) ==
    LET keep == { n \in DOMAIN st.contexts :
                    (n = "default" /\ Cardinality(knownContexts) = 0) \/ n \in knownContexts }
    IN [st EXCEPT !.contexts = [n \in keep |-> st.contexts[n]]]

\* add a default context
addDefaultContext(st) ==
    IF DOMAIN st.contexts = {}
    THEN LET id == NewCtxId(st)
             ctx == [NewContext EXCEPT !.name = "default", !.numExecutors = DefaultExecutors]
         IN [st EXCEPT !.contexts = ("default" :> id) @@ st.contexts,
                       !.ctxHeap = (id :> ctx) @@ st.ctxHeap]
    ELSE st

\* one cfg/jobs/<name>.conf entry
loadJobFile(st, jobName, conf) ==
    LET ctxPtnList == SplitCommas(ConfGet(conf, "CONTEXTS", <<>>))
        ptns == IF ctxPtnList = {} THEN {"default"} ELSE ctxPtnList
        desc == ConfGet(conf, "DESCRIPTION", "")
    IN [st EXCEPT !.jobContexts = (jobName :> ptns) @@ st.jobContexts,
                  !.jobDescriptions = IF desc # "" THEN (jobName :> desc) @@ @ ELSE @]

RECURSIVE loadJobFiles(_, _, _)
loadJobFiles(st, files, todo) ==
    IF todo = {} THEN st
    ELSE LET name == CHOOSE n \in todo : TRUE
         IN loadJobFiles(loadJobFile(st, name, files[name]), files, todo \ {name})

\* atoi on the values LAMINAR_KEEP_RUNDIRS takes here
atoi ==
    ("0" :> 0) @@ ("1" :> 1) @@ ("2" :> 2) @@ ("3" :> 3) @@ ("many" :> 0)

\* if(const char* ndirs = getenv("LAMINAR_KEEP_RUNDIRS")): the environment is
\* held with the files, as the part of the surroundings the loader reads
loadKeepRunDirs(st, tree) ==
    LET env == ConfGet(tree, "env", EmptyMap)
    IN IF "LAMINAR_KEEP_RUNDIRS" \in DOMAIN env
       THEN [st EXCEPT !.numKeepRunDirs = atoi[env["LAMINAR_KEEP_RUNDIRS"]]]
       ELSE st

\* cfg/groups.conf, if there is one; "All Jobs" when it leaves no group
loadGroups(st, tree) ==
    LET groupsConf == ConfGet(tree, "groups", EmptyMap)
    IN [st EXCEPT !.jobGroups = IF DOMAIN groupsConf = {}
                                THEN ("All Jobs" :> ".*")
                                ELSE groupsConf]

loadConfiguration(st, tree) ==
    LET s0 == loadKeepRunDirs(st, tree)
        s1 == loadContextFiles(s0, tree.contexts, DOMAIN tree.contexts)
        s2 == eraseUnknownContexts(s1, DOMAIN tree.contexts)
        s3 == addDefaultContext(s2)
    IN loadGroups(loadJobFiles(s3, tree.jobs, DOMAIN tree.jobs), tree)

\* ------------------------------------------------------------- dispatcher

\* a Run as its constructor leaves it: no context, child not signalled, no
\* timeout, nothing logged, no child reaped
NewRun(name, build) ==
    [name |-> name, build |-> build, context |-> 0, signalled |-> FALSE,
     timeout |-> 0, log |-> <<>>, lastResult |-> "unknown", reaped |-> FALSE]

RunKey(r) == <<r.name, r.build>>

\* canQueue with its capacity test off by one
canQueueOffByOne(st, ctx, run) ==
    IF ctx.busyExecutors > ctx.numExecutors THEN FALSE
    ELSE \/ \E p \in ctx.jobPatterns : fnmatch(p, run.name) = 0
         \/ \E p \in st.jobContexts[run.name] : fnmatch(p, ctx.name) = 0

\* canQueue that only looks at the capacity
canQueueAnyJob(st, ctx, run) == ~(ctx.busyExecutors >= ctx.numExecutors)

canQueue(st, ctx, run) ==
    IF ctx.busyExecutors >= ctx.numExecutors THEN FALSE
    ELSE \/ \E p \in ctx.jobPatterns : fnmatch(p, run.name) = 0
         \/ \E p \in st.jobContexts[run.name] : fnmatch(p, ctx.name) = 0

\* UPDATE builds SET <changes> WHERE name = $name AND number = $number
UpdateRow(rows, name, number, changes) ==
    { IF row.name = name /\ row.number = number
      THEN [f \in DOMAIN row |-> IF f \in DOMAIN changes THEN changes[f] ELSE row[f]]
      ELSE row : row \in rows }

\* the row of run (name, number), as a reader of the table finds it
RowOf(rows, name, number) == CHOOSE row \in rows : row.name = name /\ row.number = number

\* the zero-based place of run (name, number) in queuedJobs
PositionOf(st, name, number) ==
    (CHOOSE i \in DOMAIN st.queuedJobs : RunKey(st.queuedJobs[i]) = <<name, number>>) - 1

\* http->notifyEvent. With a notification about a run goes what an observer
\* of the process sees at the moment it is sent: the row the table holds
\* about the run and, while the run is queued, its place in the queue
notifyEvent(st, e) == [st EXCEPT !.events = Append(@, e)]

\* ctx->busyExecutors++
takeExecutor(st, c) == [st EXCEPT !.ctxHeap[c].busyExecutors = @ + 1]

\* RunState(0), what a NULL result is read as
RunStateOf0 == "unknown"

\* SELECT result FROM builds WHERE name = $1 ORDER BY completedAt DESC LIMIT 1:
\* the values the query can deliver. PostgreSQL sorts NULL as larger than every
\* value, so in a descending order the rows with a NULL completedAt come first;
\* among rows that sort equal any may come first. A NULL result is read as 0
selectLastResult(rows, name) ==
    LET mine == { row \in rows : row.name = name }
        nulls == { row \in mine : row.completedAt = NULL }
        first == IF nulls # {} THEN nulls
                 ELSE { row \in mine : \A other \in mine : other.completedAt <= row.completedAt }
    IN IF mine = {} THEN {"unknown"}
       ELSE { IF row.result = "NULL" THEN RunStateOf0 ELSE row.result : row \in first }

\* Run::start: the run keeps the context and the hint, takes its timeout from
\* the job's configuration and gets its working directory
runStart(st, it, c, lastResult) ==
    LET run == st.queuedJobs[it]
        conf == IF run.name \in DOMAIN st.cfg.jobs THEN st.cfg.jobs[run.name] ELSE EmptyMap
    IN [st EXCEPT !.queuedJobs[it].context = c,
                  !.queuedJobs[it].lastResult = lastResult,
                  !.queuedJobs[it].timeout = ConfGet(conf, "TIMEOUT", 0),
                  !.rundirs = @ \cup {RunKey(run)}]

\* UPDATE builds SET node = $1, startedAt = $2 WHERE name = $3 AND number = $4
persistStarted(st, it, c) ==
    LET run == st.queuedJobs[it]
    IN [st EXCEPT !.builds = UpdateRow(@, run.name, run.build,
                                       [node |-> st.ctxHeap[c].name, startedAt |-> Now(st)])]

\* if(run->timeout > 0) exec = exec.attach(srv.addTimeout(...))
armTimeout(st, it) ==
    LET run == st.queuedJobs[it]
    IN IF run.timeout > 0 THEN [st EXCEPT !.timers = @ \cup {RunKey(run)}] ELSE st

\* the job_started notification
notifyStarted(st, it, queueIndex) ==
    notifyEvent(st, [type |-> "job_started", name |-> st.queuedJobs[it].name,
                     number |-> st.queuedJobs[it].build,
                     row |-> RowOf(st.builds, st.queuedJobs[it].name, st.queuedJobs[it].build),
                     position |-> it - 1,
                     queueIndex |-> queueIndex])

\* tryStartRun telling the clients before it writes the row
startOnNotifyFirst(st, it, c, lastResult, queueIndex) ==
    LET s1 == notifyStarted(runStart(st, it, c, lastResult), it, queueIndex)
    IN armTimeout(takeExecutor(persistStarted(s1, it, c), c), it)

\* the body of tryStartRun for the context whose canQueue held: the run at
\* queue position it is started on Context c, its row gets node and startedAt,
\* the executor is taken, the timeout is armed, clients are told
startOn(st, it, c, lastResult, queueIndex) ==
    LET s1 == persistStarted(runStart(st, it, c, lastResult), it, c)
    IN notifyStarted(armTimeout(takeExecutor(s1, c), it), it, queueIndex)

\* tryStartRun: the states it can leave; none when it returns false. The
\* registry is iterated in the order of its container, which the run's name
\* does not fix: any context whose canQueue holds may come first
tryStartRun(st, it, queueIndex) ==
    { startOn(st, it, c, lastResult, queueIndex) :
        c \in { id \in Range(st.contexts) : canQueue(st, st.ctxHeap[id], st.queuedJobs[it]) },
        lastResult \in selectLastResult(st.builds, st.queuedJobs[it].name) }

\* std::distance(first, last) over queuedJobs, for iterators at the zero-based
\* positions first and last of a queue of size entries. Counting from first
\* forward reaches last only if last is not before first; otherwise the call
\* has no defined value: a container with random access gives the negative
\* difference, a linked list walks on through its end node round to last
distance(first, last, size) ==
    IF first <= last THEN {last - first}
    ELSE {last - first, (size - first) + 1 + last}

\* tryStartRun(*it, std::distance(it, queuedJobs.begin())) for the entry at
\* position it, the head being position 1
tryStartAt(st, it) ==
    UNION { tryStartRun(st, it, queueIndex) :
              queueIndex \in distance(it - 1, 0, Len(st.queuedJobs)) }

RemoveAt(s, i) == [j \in 1 .. (Len(s) - 1) |-> IF j < i THEN s[j] ELSE s[j + 1]]

\* activeJobs.insert(*it); it = queuedJobs.erase(it)
moveToActive(st, it) ==
    [st EXCEPT !.activeJobs = Append(@, st.queuedJobs[it]),
               !.queuedJobs = RemoveAt(@, it)]

\* a pass that stops at the first run it cannot place
RECURSIVE assignFromStopAtBlocked(_, _)
assignFromStopAtBlocked(st, it) ==
    IF it > Len(st.queuedJobs) THEN {st}
    ELSE LET started == tryStartAt(st, it)
         IN IF started = {} THEN {st}
            ELSE UNION { assignFromStopAtBlocked(moveToActive(s, it), it) : s \in started }

\* a pass that steps over the entry behind each run it starts
RECURSIVE assignFromSkipNext(_, _)
assignFromSkipNext(st, it) ==
    IF it > Len(st.queuedJobs) THEN {st}
    ELSE LET started == tryStartAt(st, it)
         IN IF started = {} THEN assignFromSkipNext(st, it + 1)
            ELSE UNION { assignFromSkipNext(moveToActive(s, it), it + 1) : s \in started }

RECURSIVE assignFrom(_, _)
assignFrom(st, it) ==
    IF it > Len(st.queuedJobs) THEN {st}
    ELSE LET started == tryStartAt(st, it)
         IN IF started = {} THEN assignFrom(st, it + 1)
            ELSE UNION { assignFrom(moveToActive(s, it), it) : s \in started }

\* a pass that looks at the head of the queue only
assignNewJobsHeadOnly(st) ==
    IF st.queuedJobs = <<>> THEN {st}
    ELSE LET started == tryStartAt(st, 1)
         IN IF started = {} THEN {st} ELSE { moveToActive(s, 1) : s \in started }

assignNewJobs(st) == assignFrom(st, 1)

\* --------------------------------------------------------------- handlers

QueuedRow(run, now) ==
    [name |-> run.name, number |-> run.build, queuedAt |-> now, startedAt |-> NULL,
     completedAt |-> NULL, result |-> "NULL", node |-> "NULL", output |-> NoOutput]

\* queueJob putting every run at the front of the queue
enqueueAtFront(st, name, frontOfQueue) ==
    LET jc == IF name \notin DOMAIN st.jobContexts \/ st.jobContexts[name] = {}
              THEN (name :> {"default"}) @@ st.jobContexts
              ELSE st.jobContexts
        run == NewRun(name, st.buildNums[name] + 1)
    IN [st EXCEPT !.jobContexts = jc,
                  !.buildNums[name] = @ + 1,
                  !.queuedJobs = <<run>> \o @,
                  !.builds = @ \cup {QueuedRow(run, Now(st))}]

\* queueJob past its existence check: the job's context patterns default, the
\* build number is taken, the run is queued and its row inserted
enqueue(st, name, frontOfQueue) ==
    LET jc == IF name \notin DOMAIN st.jobContexts \/ st.jobContexts[name] = {}
              THEN (name :> {"default"}) @@ st.jobContexts
              ELSE st.jobContexts
        run == NewRun(name, st.buildNums[name] + 1)
    IN [st EXCEPT !.jobContexts = jc,
                  !.buildNums[name] = @ + 1,
                  !.queuedJobs = IF frontOfQueue THEN <<run>> \o @ ELSE Append(@, run),
                  !.builds = @ \cup {QueuedRow(run, Now(st))}]

\* queueJob without its notification
notifyQueuedMissing(st, name, frontOfQueue) == st

\* the job_queued notification for the run queueJob has just queued
notifyQueued(st, name, frontOfQueue) ==
    notifyEvent(st, [type |-> "job_queued", name |-> name, number |-> st.buildNums[name],
                     row |-> RowOf(st.builds, name, st.buildNums[name]),
                     position |-> PositionOf(st, name, st.buildNums[name]),
                     queueIndex |-> IF frontOfQueue THEN 0 ELSE Len(st.queuedJobs) - 1])

\* a handler's outcome: the state it leaves and the value it returns
Outcome(st, value) == [st |-> st, ret |-> value]

\* queueJob without its existence check
queueJobUnchecked(st, name, frontOfQueue) ==
    { Outcome(s, "run") :
        s \in assignNewJobs(notifyQueued(enqueue(st, name, frontOfQueue), name, frontOfQueue)) }

\* queueJob: the outcomes it can have
queueJob(st, name, frontOfQueue) ==
    IF name \notin RunFiles
    THEN { Outcome(st, "null") }
    ELSE { Outcome(s, "run") :
             s \in assignNewJobs(notifyQueued(enqueue(st, name, frontOfQueue), name, frontOfQueue)) }

\* activeRun: the position in activeJobs of the run (name, num), 0 if none
activeRun(st, name, num) ==
    LET found == { i \in DOMAIN st.activeJobs :
                     st.activeJobs[i].name = name /\ st.activeJobs[i].build = num }
    IN IF found = {} THEN 0 ELSE CHOOSE i \in found : TRUE

\* Run::abort: the child's process group is sent SIGTERM
runAbort(st, i) == Outcome([st EXCEPT !.activeJobs[i].signalled = TRUE], "true")

\* an abort that also takes a queued run out of the queue
abortQueuedToo(st, job, buildNum) ==
    LET run == activeRun(st, job, buildNum)
        queued == { i \in DOMAIN st.queuedJobs :
                      st.queuedJobs[i].name = job /\ st.queuedJobs[i].build = buildNum }
    IN IF run # 0 THEN runAbort(st, run)
       ELSE IF queued # {}
       THEN Outcome([st EXCEPT !.queuedJobs = RemoveAt(@, CHOOSE i \in queued : TRUE)], "true")
       ELSE Outcome(st, "false")

abort(st, job, buildNum) ==
    LET run == activeRun(st, job, buildNum)
    IN IF run # 0 THEN runAbort(st, run) ELSE Outcome(st, "false")

\* handleRunFinished without its decrement
releaseExecutorSkipped(st, c) == st

\* a decrement that takes two executors back
releaseExecutorTwice(st, c) == [st EXCEPT !.ctxHeap[c].busyExecutors = @ - 2]

\* a decrement that looks the context up in the registry by its name
releaseExecutorByName(st, c) ==
    LET name == st.ctxHeap[c].name
    IN IF name \in DOMAIN st.contexts
       THEN [st EXCEPT !.ctxHeap[st.contexts[name]].busyExecutors = @ - 1]
       ELSE st

\* ctx->busyExecutors--
releaseExecutor(st, c) == [st EXCEPT !.ctxHeap[c].busyExecutors = @ - 1]

\* handleRunFinished notifying twice
notifyCompletedTwice(st, r, result) ==
    LET e == [type |-> "job_completed", name |-> r.name, number |-> r.build,
              row |-> RowOf(st.builds, r.name, r.build), result |-> result]
    IN notifyEvent(notifyEvent(st, e), e)

\* the job_completed notification
notifyCompleted(st, r, result) ==
    notifyEvent(st, [type |-> "job_completed", name |-> r.name, number |-> r.build,
                     row |-> RowOf(st.builds, r.name, r.build), result |-> result])

\* http->notifyLog; with the notification goes the number of notifyEvent
\* calls made before it, which places it among them
notifyLog(st, name, build, chunk, complete) ==
    [st EXCEPT !.logEvents = Append(@, [name |-> name, number |-> build,
                                        chunk |-> chunk, complete |-> complete,
                                        after |-> Len(st.events)])]

\* handleRunFinished without its erase
eraseActiveSkipped(st, i) == st

\* activeJobs.byRunPtr().erase(r)
eraseActive(st, i) == [st EXCEPT !.activeJobs = RemoveAt(@, i)]

\* UPDATE builds SET completedAt = $1, result = $2, output = $3, outputLen = $4
persistCompleted(st, r, result) ==
    [st EXCEPT !.builds = UpdateRow(@, r.name, r.build,
                                    [completedAt |-> Now(st), result |-> result,
                                     output |-> r.log])]

\* static_cast<int>(a - b) for unsigned 32-bit a and b: the difference wraps
\* modulo 2^32 and the cast reads the bits back as a signed value, which for
\* a, b < 2^31 is a - b, negative when b > a
uintDiffAsInt(a, b) == a - b

\* a loop that goes on past a directory that does not exist
RECURSIVE removeRunDirsPastGaps(_, _, _)
removeRunDirsPastGaps(st, name, i) ==
    IF i > 0
    THEN removeRunDirsPastGaps([st EXCEPT !.rundirs = @ \ {<<name, i>>}], name, i - 1)
    ELSE st

\* the loop over run/<name>/<i>, i counting down: it ends at the first
\* directory that does not exist
RECURSIVE removeRunDirs(_, _, _)
removeRunDirs(st, name, i) ==
    IF i > 0 /\ <<name, i>> \in st.rundirs
    THEN removeRunDirs([st EXCEPT !.rundirs = @ \ {<<name, i>>}], name, i - 1)
    ELSE st

\* activeJobs.byJobName().equal_range(name): the active runs of the job, in
\* the order of the index, which keeps runs of one name in insertion order
byJobName(st, name) == { i \in DOMAIN st.activeJobs : st.activeJobs[i].name = name }

\* remove old run directories, counting back from the oldest active run of
\* the job or, if there is none, from the job's latest build number
removeOldRunDirs(st, name) ==
    LET range == byJobName(st, name)
        oldestActive == IF range = {} THEN st.buildNums[name]
                        ELSE st.activeJobs[Min(range)].build - 1
    IN removeRunDirs(st, name, uintDiffAsInt(oldestActive, st.numKeepRunDirs))

\* fsHome->symlink(archive/<name>/latest -> <build>)
linkLatest(st, r) == [st EXCEPT !.latest = (r.name :> r.build) @@ @]

\* handleRunFinished without the dispatch pass at its end
handleRunFinishedNoDispatch(st, i, result) ==
    LET r == st.activeJobs[i]
        s1 == releaseExecutor(st, r.context)
        s2 == persistCompleted(s1, r, result)
        s3 == notifyLog(notifyCompleted(s2, r, result), r.name, r.build, "", TRUE)
        s4 == removeOldRunDirs(eraseActive(s3, i), r.name)
    IN { linkLatest(s4, r) }

\* handleRunFinished for the run at position i of activeJobs, whose child was
\* reaped with the given result: the states it can leave
handleRunFinished(st, i, result) ==
    LET r == st.activeJobs[i]
        s1 == releaseExecutor(st, r.context)
        s2 == persistCompleted(s1, r, result)
        s3 == notifyLog(notifyCompleted(s2, r, result), r.name, r.build, "", TRUE)
        s4 == removeOldRunDirs(eraseActive(s3, i), r.name)
    IN assignNewJobs(linkLatest(s4, r))

\* a finished task that keeps its timeout
dropTimeoutSkipped(st, key) == st

\* the task of a run ends with handleRunFinished, and what is attached to it,
\* the timeout, is destroyed with it
dropTimeout(st, key) == [st EXCEPT !.timers = @ \ {key}]

\* the continuation of the run's task once its pipe closed and its child was
\* reaped: handleRunFinished, then the end of the task
finishTask(st, i, result) ==
    { dropTimeout(s, RunKey(st.activeJobs[i])) : s \in handleRunFinished(st, i, result) }

\* the same continuation when the UPDATE of handleRunFinished throws: the
\* handler is left after ctx->busyExecutors--, the exception ends the task,
\* and nothing else of the handler takes place
finishTaskDbFails(st, i) ==
    LET r == st.activeJobs[i]
        s1 == [st EXCEPT !.activeJobs[i].reaped = TRUE]
    IN dropTimeout(releaseExecutor(s1, r.context), RunKey(r))

\* the timeout of the run at position i of activeJobs expires: r->abort()
timeoutExpired(st, i) ==
    [runAbort(st, i).st EXCEPT !.timers = @ \ {RunKey(st.activeJobs[i])}]

\* a handler that puts what it read in front of the run's log
handleLogOutputPrepend(st, i, chunk) ==
    LET r == st.activeJobs[i]
    IN notifyLog([st EXCEPT !.activeJobs[i].log = <<chunk>> \o @],
                 r.name, r.build, chunk, FALSE)

\* handle log output: the child of the run at position i wrote a chunk
handleLogOutput(st, i, chunk) ==
    LET r == st.activeJobs[i]
    IN notifyLog([st EXCEPT !.activeJobs[i].log = Append(@, chunk)],
                 r.name, r.build, chunk, FALSE)

\* handleLogRequest: what it returns, with output and complete as it leaves
\* them. A row whose output is NULL cannot be read into a string: for_each throws
handleLogRequest(st, name, num) ==
    LET run == activeRun(st, name, num)
        rows == { row \in st.builds : row.name = name /\ row.number = num }
    IN IF run # 0
       THEN [ret |-> "true", output |-> st.activeJobs[run].log, complete |-> FALSE]
       ELSE IF \E row \in rows : row.output = NoOutput
       THEN [ret |-> "throws", output |-> <<>>, complete |-> FALSE]
       ELSE IF \E row \in rows : Len(row.output) > 0
       THEN [ret |-> "true", output |-> (CHOOSE row \in rows : TRUE).output, complete |-> TRUE]
       ELSE [ret |-> "false", output |-> <<>>, complete |-> FALSE]

\* the result a reaped run carries: ABORTED once its child was signalled
ExitResults(r) == IF r.signalled THEN {"aborted"} ELSE Results

\* ---------------------------------------------------------------- actions

NumQueued(evs) == Cardinality({ i \in DOMAIN evs : evs[i].type = "job_queued" })

\* the rows a previous process left: builds 1..k of alpha, all completed
PreRowsOf(k) ==
    { [name |-> "alpha", number |-> n, queuedAt |-> 0, startedAt |-> 0, completedAt |-> 0,
       result |-> "success", node |-> "default", output |-> <<"o">>] : n \in 1 .. k }

PreRows == PreRowsOf(MaxPre)

\* a constructor that does not read the table
lastBuildNumsUnread(rows) == [n \in JobNames |-> 0]

\* retrieve the last build numbers
lastBuildNums(rows) ==
    [n \in JobNames |->
        LET nums == { row.number : row \in { x \in rows : x.name = n } }
        IN IF nums = {} THEN 0 ELSE Max(nums)]

\* the object the constructor builds over the database, the files and the
\* run directories it finds
Constructed(rows, tree, dirs) ==
    loadConfiguration(
        [cfg |-> tree, contexts |-> EmptyMap, ctxHeap |-> EmptyMap, jobContexts |-> EmptyMap,
         buildNums |-> lastBuildNums(rows), queuedJobs |-> <<>>, activeJobs |-> <<>>,
         builds |-> rows, events |-> <<>>, jobDescriptions |-> EmptyMap,
         jobGroups |-> EmptyMap, numKeepRunDirs |-> 0, rundirs |-> dirs,
         latest |-> EmptyMap, timers |-> {}, logEvents |-> <<>>],
        tree)

StartsAs(st) ==
    /\ cfg = st.cfg
    /\ contexts = st.contexts
    /\ ctxHeap = st.ctxHeap
    /\ jobContexts = st.jobContexts
    /\ buildNums = st.buildNums
    /\ queuedJobs = st.queuedJobs
    /\ activeJobs = st.activeJobs
    /\ builds = st.builds
    /\ events = st.events
    /\ jobDescriptions = st.jobDescriptions
    /\ jobGroups = st.jobGroups
    /\ numKeepRunDirs = st.numKeepRunDirs
    /\ rundirs = st.rundirs
    /\ latest = st.latest
    /\ timers = st.timers
    /\ logEvents = st.logEvents

Init == \E tree \in ConfigTrees : StartsAs(Constructed(PreRows, tree, {}))

\* a client submits a job; at most max runs are queued in one behaviour
Submit(name, frontOfQueue, max) ==
    /\ name \in RunFiles => NumQueued(events) < max
    /\ \E out \in queueJob(Self, name, frontOfQueue) : Becomes(Release(out.st))
    /\ UNCHANGED cfg

QueueJob(name, frontOfQueue) == Submit(name, frontOfQueue, MaxRuns)

\* a client asks to abort a run
Abort(job, buildNum) ==
    /\ Becomes(abort(Self, job, buildNum).st)
    /\ UNCHANGED cfg

\* the child of an active run exits, its pipe closes and it is reaped
RunFinished(i) ==
    /\ i \in DOMAIN activeJobs
    /\ ~activeJobs[i].reaped
    /\ \E result \in ExitResults(activeJobs[i]) :
           \E st \in finishTask(Self, i, result) : Becomes(Release(st))
    /\ UNCHANGED cfg

\* the files in which two configuration trees differ
ChangedFiles(t, u) ==
    { <<"contexts", n>> : n \in { m \in CtxFileNames :
        (m \in DOMAIN t.contexts) # (m \in DOMAIN u.contexts)
        \/ (m \in DOMAIN t.contexts /\ m \in DOMAIN u.contexts /\ t.contexts[m] # u.contexts[m]) } }
    \cup
    { <<"jobs", n>> : n \in { m \in RunFiles :
        (m \in DOMAIN t.jobs) # (m \in DOMAIN u.jobs)
        \/ (m \in DOMAIN t.jobs /\ m \in DOMAIN u.jobs /\ t.jobs[m] # u.jobs[m]) } }
    \cup
    { <<"groups", "conf">> : n \in { m \in {"groups"} :
        (m \in DOMAIN t) # (m \in DOMAIN u)
        \/ (m \in DOMAIN t /\ m \in DOMAIN u /\ t[m] # u[m]) } }

\* a file under cfg is written, removed or touched and the watcher fires: the
\* files now hold tree. The environment of the process stays as it is
Reload(tree) ==
    /\ Cardinality(ChangedFiles(cfg, tree)) <= 1
    /\ ConfGet(tree, "env", EmptyMap) = ConfGet(cfg, "env", EmptyMap)
    /\ cfg' = tree
    /\ \E st \in assignNewJobs(loadConfiguration([Self EXCEPT !.cfg = tree], tree)) :
           Becomes(Release(st))

BuildRange == 1 .. (MaxPre + MaxRuns)

Next ==
    \/ \E name \in JobNames, frontOfQueue \in BOOLEAN : QueueJob(name, frontOfQueue)
    \/ \E job \in RunFiles, buildNum \in BuildRange : Abort(job, buildNum)
    \/ \E i \in 1 .. MaxRuns : RunFinished(i)
    \/ \E tree \in ConfigTrees : Reload(tree)

Spec == Init /\ [][Next]_vars

\* ------------------------------------------- runs with timeouts and output

\* successful queueJob calls in one behaviour of TimedSpec
TimedRuns == 2
\* chunks of output one run writes
MaxChunks == 2
\* what one read from the pipe of a child can bring
LogChunks == {"x", "y"}

\* one context of one executor; job alpha runs on it, with or without a TIMEOUT
TimedTrees ==
    { [contexts |-> ("ctx1" :> [EXECUTORS |-> 1]), jobs |-> ("alpha" :> conf)] :
        conf \in { [CONTEXTS |-> <<"ctx1">>], [CONTEXTS |-> <<"ctx1">>, TIMEOUT |-> 1] } }

TimedInit == \E tree \in TimedTrees : StartsAs(Constructed(PreRows, tree, {}))

TimedBuilds == 1 .. (MaxPre + TimedRuns)

TimedQueueJob(frontOfQueue) == Submit("alpha", frontOfQueue, TimedRuns)

\* the timeout of an active run expires
TimeoutExpired(i) ==
    /\ i \in DOMAIN activeJobs
    /\ RunKey(activeJobs[i]) \in timers
    /\ Becomes(timeoutExpired(Self, i))
    /\ UNCHANGED cfg

\* the child of an active run writes to its output
LogOutput(i) ==
    /\ i \in DOMAIN activeJobs
    /\ Len(activeJobs[i].log) < MaxChunks
    /\ \E chunk \in LogChunks : Becomes(handleLogOutput(Self, i, chunk))
    /\ UNCHANGED cfg

TimedNext ==
    \/ \E frontOfQueue \in BOOLEAN : TimedQueueJob(frontOfQueue)
    \/ \E buildNum \in TimedBuilds : Abort("alpha", buildNum)
    \/ \E i \in 1 .. TimedRuns : RunFinished(i)
    \/ \E tree \in TimedTrees : Reload(tree)
    \/ \E i \in 1 .. TimedRuns : TimeoutExpired(i)
    \/ \E i \in 1 .. TimedRuns : LogOutput(i)

TimedSpec == TimedInit /\ [][TimedNext]_vars

\* ------------------------------------------------ failing database statements

\* the child of an active run exits and is reaped, and the database refuses
\* the UPDATE that handleRunFinished sends
RunFinishedDbFails(i) ==
    /\ i \in DOMAIN activeJobs
    /\ ~activeJobs[i].reaped
    /\ Becomes(Release(finishTaskDbFails(Self, i)))
    /\ UNCHANGED cfg

FaultyNext ==
    \/ TimedNext
    \/ \E i \in 1 .. TimedRuns : RunFinishedDbFails(i)

FaultySpec == TimedInit /\ [][FaultyNext]_vars

\* ------------------------------------------------------ three runs in a queue

\* successful queueJob calls in one behaviour of FifoSpec
FifoRuns == 3

\* context ctx1, if its file exists, has one executor; alpha.conf, if it
\* exists, sends alpha to ctx1
FifoTrees ==
    [contexts : Files({"ctx1"}, ("ctx1" :> { [EXECUTORS |-> 1] })),
     jobs : Files({"alpha"}, ("alpha" :> { [CONTEXTS |-> <<"ctx1">>] }))]

FifoInit == \E tree \in FifoTrees : StartsAs(Constructed(PreRows, tree, {}))

FifoQueueJob(name, frontOfQueue) == Submit(name, frontOfQueue, FifoRuns)

FifoNext ==
    \/ \E name \in RunFiles, frontOfQueue \in BOOLEAN : FifoQueueJob(name, frontOfQueue)
    \/ \E i \in 1 .. FifoRuns : RunFinished(i)
    \/ \E tree \in FifoTrees : Reload(tree)

FifoSpec == FifoInit /\ [][FifoNext]_vars

\* ------------------------------------------------- runs and their directories

\* successful queueJob calls in one behaviour of RetentionSpec
RetRuns == 3
\* builds of alpha a previous process may have left
RetPre == 2

\* one context of one or three executors on which alpha runs; the environment
\* has LAMINAR_KEEP_RUNDIRS unset, a number or something that is not a number
RetentionTrees ==
    { [contexts |-> ("ctx1" :> [EXECUTORS |-> e]),
       jobs |-> ("alpha" :> [CONTEXTS |-> <<"ctx1">>]),
       env |-> env] :
        e \in {1, 3},
        env \in {EmptyMap} \cup { ("LAMINAR_KEEP_RUNDIRS" :> v) : v \in {"1", "2", "many"} } }

\* a previous process left builds 1..k of alpha and any of their directories
RetentionInit ==
    \E tree \in RetentionTrees, k \in 0 .. RetPre :
        \E dirs \in SUBSET { <<"alpha", n>> : n \in 1 .. k } :
            StartsAs(Constructed(PreRowsOf(k), tree, dirs))

RetQueueJob(frontOfQueue) == Submit("alpha", frontOfQueue, RetRuns)

RetentionNext ==
    \/ \E frontOfQueue \in BOOLEAN : RetQueueJob(frontOfQueue)
    \/ \E i \in 1 .. RetRuns : RunFinished(i)
    \/ \E tree \in RetentionTrees : Reload(tree)

RetentionSpec == RetentionInit /\ [][RetentionNext]_vars

\* ------------------------------------------------------------------ claims

ActiveOn(id) == Cardinality({ i \in DOMAIN activeJobs : activeJobs[i].context = id })

AllWithinCapacity ==
    \A id \in DOMAIN ctxHeap : ctxHeap[id].busyExecutors <= ctxHeap[id].numExecutors

\* the keys of the runs queueJob has returned, and of those in each container
QueuedKeys == { <<events[i].name, events[i].number>> :
                  i \in { j \in DOMAIN events : events[j].type = "job_queued" } }

InQueue == { RunKey(queuedJobs[i]) : i \in DOMAIN queuedJobs }

InActive == { RunKey(activeJobs[i]) : i \in DOMAIN activeJobs }

EventsOf(type, key) ==
    { i \in DOMAIN events : events[i].type = type /\ <<events[i].name, events[i].number>> = key }

\* C1 as stated: in every reachable state every context has
\* 0 <= busyExecutors <= numExecutors, reloads that change EXECUTORS included
C1_AsStated ==
    \A id \in DOMAIN ctxHeap :
        0 <= ctxHeap[id].busyExecutors /\ ctxHeap[id].busyExecutors <= ctxHeap[id].numExecutors

C1_NonNegative == \A id \in DOMAIN ctxHeap : 0 <= ctxHeap[id].busyExecutors

\* a step that adds a run to a registered context leaves it within its capacity
C1_StartsWithinCapacity ==
    \A n \in DOMAIN contexts' :
        LET after == ctxHeap'[contexts'[n]]
            before == IF n \in DOMAIN contexts THEN ctxHeap[contexts[n]].busyExecutors ELSE 0
        IN after.busyExecutors > before => after.busyExecutors <= after.numExecutors

\* C1, amended: busyExecutors is never negative; every handler that leaves the
\* configuration files as they were (queueJob, a start, a completion, an abort,
\* a reload of unchanged files) keeps busyExecutors <= numExecutors on every
\* context; and no step adds a run to a context beyond its numExecutors. Only
\* a reload that lowers EXECUTORS below the runs active on a context leaves
\* busyExecutors above numExecutors
C1_Amended ==
    /\ []C1_NonNegative
    /\ [][/\ (cfg' = cfg /\ AllWithinCapacity) => AllWithinCapacity'
          /\ C1_StartsWithinCapacity]_vars

\* a registered context that a reload left over its capacity
C1_Witness ==
    \E n \in DOMAIN contexts :
        /\ ctxHeap[contexts[n]].busyExecutors > ctxHeap[contexts[n]].numExecutors
        /\ n \in DOMAIN cfg.contexts
        /\ ctxHeap[contexts[n]].numExecutors = cfg.contexts[n].EXECUTORS

\* C2: for every context object, busyExecutors is the number of runs in
\* activeJobs that hold it
C2_BusyCountsActiveRuns ==
    /\ \A i \in DOMAIN activeJobs : activeJobs[i].context \in DOMAIN ctxHeap
    /\ \A id \in DOMAIN ctxHeap : ctxHeap[id].busyExecutors = ActiveOn(id)

\* a context that holds a run after another run has completed
C2_Witness ==
    /\ \E id \in DOMAIN ctxHeap : ctxHeap[id].busyExecutors >= 1
    /\ \E i \in DOMAIN events : events[i].type = "job_completed"

\* C3: a run queueJob has returned is in exactly one of queuedJobs and
\* activeJobs until its completion was handled and in neither afterwards. It
\* is in queuedJobs exactly while it has not been started, and in activeJobs
\* exactly from its one start to its completion, so it re-enters neither
C3_OneContainer ==
    /\ \A i, j \in DOMAIN queuedJobs : RunKey(queuedJobs[i]) = RunKey(queuedJobs[j]) => i = j
    /\ \A i, j \in DOMAIN activeJobs : RunKey(activeJobs[i]) = RunKey(activeJobs[j]) => i = j
    /\ InQueue \cup InActive \subseteq QueuedKeys
    /\ \A k \in QueuedKeys :
        /\ Cardinality(EventsOf("job_started", k)) <= 1
        /\ k \in InQueue <=> EventsOf("job_started", k) = {}
        /\ k \in InActive <=>
              (EventsOf("job_started", k) # {} /\ EventsOf("job_completed", k) = {})

\* one run completed and another moved from the queue to activeJobs
C3_Witness ==
    /\ \E k \in QueuedKeys : EventsOf("job_completed", k) # {}
    /\ \E k \in QueuedKeys : k \in InActive

\* C4: every job_started notification comes after a job_queued one for the
\* same (name, build), and every job_completed after a job_started one
C4_EventOrder ==
    \A i \in DOMAIN events :
        LET k == <<events[i].name, events[i].number>>
        IN /\ events[i].type = "job_started" =>
                \E j \in EventsOf("job_queued", k) : j < i
           /\ events[i].type = "job_completed" =>
                \E j \in EventsOf("job_started", k) : j < i

\* a run that was queued, started and completed
C4_Witness ==
    \E k \in QueuedKeys : EventsOf("job_started", k) # {} /\ EventsOf("job_completed", k) # {}

\* the rows this process inserted (a previous process's rows have queuedAt 0)
OwnRows == { row \in builds : row.queuedAt > 0 }

\* C5: a run whose completion was handled (its row has completedAt) has
\* exactly one job_completed notification, carrying its result, and a run not
\* yet completed has none
C5_OneCompletedEvent ==
    \A row \in OwnRows :
        LET done == EventsOf("job_completed", <<row.name, row.number>>)
        IN IF row.completedAt # NULL
           THEN Cardinality(done) = 1 /\ \A i \in done : events[i].result = row.result
           ELSE done = {}

\* a completed run beside one that is still active
C5_Witness ==
    /\ \E row \in OwnRows : row.completedAt # NULL
    /\ \E row \in OwnRows : row.completedAt = NULL /\ row.startedAt # NULL

RowNumbers(rows, n) == { row.number : row \in { x \in rows : x.name = n } }

MaxOr0(S) == IF S = {} THEN 0 ELSE Max(S)

QueuedEvents(n) == { i \in DOMAIN events : events[i].type = "job_queued" /\ events[i].name = n }

\* C6: buildNums[name] is at least every persisted number of the name, the
\* rows found at startup included; it has grown by exactly one per run queued
\* for the name; the runs of a name get strictly increasing numbers, and no
\* two rows of the table share (name, number)
C6_FreshBuildNumbers ==
    /\ \A n \in JobNames :
        /\ buildNums[n] >= MaxOr0(RowNumbers(builds, n))
        /\ buildNums[n] = MaxOr0(RowNumbers(builds \ OwnRows, n)) + Cardinality(QueuedEvents(n))
        /\ \A i, j \in QueuedEvents(n) : i < j => events[i].number < events[j].number
    /\ \A r1, r2 \in builds : (r1.name = r2.name /\ r1.number = r2.number) => r1 = r2

\* two runs of a job that had rows at startup: numbers MaxPre + 1 and MaxPre + 2
C6_Witness ==
    /\ MaxPre >= 1
    /\ \E i, j \in QueuedEvents("alpha") :
          events[i].number = MaxPre + 1 /\ events[j].number = MaxPre + 2

\* C7: queueJob for a name without a .run script returns null and leaves the
\* whole state as it was: no notification, no table entry, no build number, no
\* context pattern, no change to the queue, the active runs or the executors
C7_MissingJobNoEffect ==
    \A name \in JobNames \ RunFiles, frontOfQueue \in BOOLEAN :
        queueJob(Self, name, frontOfQueue) = { Outcome(Self, "null") }

\* a missing job submitted while runs are queued and active
C7_Witness ==
    /\ queuedJobs # <<>>
    /\ activeJobs # <<>>
    /\ \A out \in queueJob(Self, "gamma", TRUE) : out.ret = "null"

\* the two ways a run is eligible for a context
Eligible(ctx, name, jc) ==
    \/ \E p \in ctx.jobPatterns : Glob(Chars[p], Chars[name])
    \/ \E p \in jc[name] : Glob(Chars[p], Chars[ctx.name])

\* every run a step starts is on a registered context that is eligible for it
\* and, with the run counted, within its numExecutors
C8_StartedWhereAllowed ==
    \A i \in DOMAIN activeJobs' :
        LET r == activeJobs'[i]
        IN RunKey(r) \notin InActive =>
            /\ r.context \in Range(contexts')
            /\ ctxHeap'[r.context].busyExecutors <= ctxHeap'[r.context].numExecutors
            /\ Eligible(ctxHeap'[r.context], r.name, jobContexts')

C8_QueuedNotStarted == \A k \in InQueue : EventsOf("job_started", k) = {}

\* C8: a run is started only on a context that at that moment has a free
\* executor and is eligible for it, and a run that is still queued has no
\* job_started notification
C8_DispatchRule == []C8_QueuedNotStarted /\ [][C8_StartedWhereAllowed]_vars

Unfinished(type) ==
    { i \in DOMAIN events : events[i].type = type
        /\ EventsOf("job_completed", <<events[i].name, events[i].number>>) = {} }

\* one context of one executor and two runs eligible only for it: one job_started
C8_Witness ==
    /\ DOMAIN contexts = {"ctx1"}
    /\ ctxHeap[contexts["ctx1"]].numExecutors = 1
    /\ Len(queuedJobs) = 1 /\ Len(activeJobs) = 1
    /\ queuedJobs[1].name = activeJobs[1].name
    /\ Cardinality(Unfinished("job_queued")) = 2
    /\ Cardinality(Unfinished("job_started")) = 1

Placeable(run) ==
    \E id \in Range(contexts) :
        /\ ctxHeap[id].busyExecutors < ctxHeap[id].numExecutors
        /\ Eligible(ctxHeap[id], run.name, jobContexts)

\* C9: a run that could not be placed does not hold back the runs behind it:
\* after a pass no run behind the head of the queue has a context that would
\* take it
C9_NoHeadOfLineBlocking == \A j \in 2 .. Len(queuedJobs) : Placeable(queuedJobs[j]) = FALSE

\* a run queued behind a run that is still waiting was started before it
C9_Witness ==
    \E h \in DOMAIN queuedJobs, b \in DOMAIN activeJobs :
        \E i \in EventsOf("job_queued", RunKey(queuedJobs[h])),
           j \in EventsOf("job_queued", RunKey(activeJobs[b])) :
            i < j /\ events[j].queueIndex >= 1

\* C10: abort returns true only for a run in activeJobs, which it signals; for
\* any other (name, build), queued, completed or unknown, it returns false and
\* leaves the state as it was, the queued run still in its place in the queue
C10_AbortOnlyActive ==
    \A job \in JobNames, buildNum \in BuildRange :
        LET out == abort(Self, job, buildNum)
        IN /\ out.ret \in {"true", "false"}
           /\ out.ret = "true" =>
                /\ <<job, buildNum>> \in InActive
                /\ \E i \in DOMAIN out.st.activeJobs :
                      /\ RunKey(out.st.activeJobs[i]) = <<job, buildNum>>
                      /\ out.st.activeJobs[i].signalled
           /\ <<job, buildNum>> \notin InActive => (out.ret = "false" /\ out.st = Self)
           /\ out.st.queuedJobs = queuedJobs
           /\ out.st.ctxHeap = ctxHeap
           /\ [ i \in DOMAIN out.st.activeJobs |-> RunKey(out.st.activeJobs[i]) ]
                = [ i \in DOMAIN activeJobs |-> RunKey(activeJobs[i]) ]

\* a run that was signalled while another run waits in the queue, and a
\* completed run, for which abort returns false
C10_Witness ==
    /\ \E i \in DOMAIN activeJobs : activeJobs[i].signalled
    /\ \E k \in QueuedKeys :
          EventsOf("job_completed", k) # {} /\ abort(Self, k[1], k[2]).ret = "false"

\* busyExecutors counts the runs that hold the context, in state st
BusyCountsActiveRunsIn(st) ==
    \A id \in DOMAIN st.ctxHeap :
        st.ctxHeap[id].busyExecutors =
            Cardinality({ i \in DOMAIN st.activeJobs : st.activeJobs[i].context = id })

\* run k is in neither container of st and st has one job_completed for it,
\* with result ABORTED
CompletedAbortedIn(st, k) ==
    LET done == { i \in DOMAIN st.events :
                    st.events[i].type = "job_completed"
                    /\ <<st.events[i].name, st.events[i].number>> = k }
    IN /\ \A i \in DOMAIN st.activeJobs : RunKey(st.activeJobs[i]) # k
       /\ \A i \in DOMAIN st.queuedJobs : RunKey(st.queuedJobs[i]) # k
       /\ Cardinality(done) = 1
       /\ \A i \in done : st.events[i].result = "aborted"
       /\ RowOf(st.builds, k[1], k[2]).result = "aborted"

\* the states the reaping of the run at position i of activeJobs can lead to
Reaped(i) ==
    UNION { finishTask(Self, i, result) : result \in ExitResults(activeJobs[i]) }

\* C11: in every state in which the child of an active run has been signalled,
\* reaping the child takes the run through handleRunFinished: the run leaves
\* activeJobs, exactly one job_completed with result ABORTED is sent for it,
\* and its executor is given back once, so that busyExecutors of every context
\* again counts the runs holding it. Until then the run stays in activeJobs
C11_AbortedRunCompletes ==
    \A i \in DOMAIN activeJobs :
        activeJobs[i].signalled =>
            /\ EventsOf("job_completed", RunKey(activeJobs[i])) = {}
            /\ Reaped(i) # {}
            /\ \A st \in Reaped(i) :
                  CompletedAbortedIn(st, RunKey(activeJobs[i])) /\ BusyCountsActiveRunsIn(st)

\* a run that abort signalled has completed as ABORTED and another one was
\* signalled; no timeout is involved
C11_Witness ==
    /\ \E k \in QueuedKeys : CompletedAbortedIn(Self, k)
    /\ timers = {}
    /\ \E i \in DOMAIN activeJobs : activeJobs[i].signalled

SignalledActive(k) ==
    \E i \in DOMAIN activeJobs : RunKey(activeJobs[i]) = k /\ activeJobs[i].signalled

\* a timeout exists only for a run in activeJobs that has timeout > 0
C12_TimerOnlyWhileActive ==
    /\ timers \subseteq InActive
    /\ \A i \in DOMAIN activeJobs :
          RunKey(activeJobs[i]) \in timers => activeJobs[i].timeout > 0

\* a run a step starts has a timer exactly if its timeout is > 0; a timer that
\* goes away while its run stays active has signalled the run
C12_ArmedAndExpiring ==
    /\ \A i \in DOMAIN activeJobs' :
          RunKey(activeJobs'[i]) \notin InActive =>
              (RunKey(activeJobs'[i]) \in timers' <=> activeJobs'[i].timeout > 0)
    /\ \A k \in timers \ timers' : k \in InActive' => SignalledActive(k)'

\* C12: a run started with timeout > 0 gets a timer and a run with timeout 0
\* gets none; the timer exists only while its run is in activeJobs, so it never
\* acts on a run that has completed; when it expires while the run is active,
\* the run is signalled (and then completes as ABORTED, as every signalled run)
C12_Timeout == []C12_TimerOnlyWhileActive /\ [][C12_ArmedAndExpiring]_vars

\* the timeout of an active run has expired and signalled it, after an earlier
\* run completed and its task ended
C12_Witness ==
    /\ \E i \in DOMAIN activeJobs :
          /\ activeJobs[i].timeout > 0
          /\ RunKey(activeJobs[i]) \notin timers
          /\ activeJobs[i].signalled
    /\ \E i \in DOMAIN events : events[i].type = "job_completed"

\* C13: a second assignNewJobs right after a first one changes nothing: every
\* handler that can make a run placeable ends with a pass, and in the state it
\* leaves a further pass starts no run, sends no notification and leaves the
\* queue, the active runs, the executors and the table exactly as they are
C13_DispatchIdempotent == assignNewJobs(Self) = {Self}

\* a pass has started one run and left another, for which no slot is free
C13_Witness ==
    /\ Len(queuedJobs) = 1
    /\ Len(activeJobs) = 1
    /\ \E id \in Range(contexts) : ctxHeap[id].busyExecutors = ctxHeap[id].numExecutors
    /\ Placeable(queuedJobs[1]) = FALSE

\* the files as last read, with a cfg/groups.conf added: empty, or naming a group
LoaderTrees ==
    { [contexts |-> cfg.contexts, jobs |-> cfg.jobs, groups |-> g] :
        g \in { EmptyMap, ("Alphas" :> "a.*") } }

\* C14: loading files identical to those of the previous load leaves the
\* loader's state as it is: in every reachable state a load of the files as
\* last read changes nothing (same context names and records, numExecutors,
\* jobPatterns, busyExecutors, jobContexts, jobDescriptions, jobGroups), and
\* for any files, groups.conf included, a second load right after the first
\* changes nothing; no load touches queuedJobs or activeJobs
C14_ReloadSameFilesNoOp ==
    /\ loadConfiguration(Self, cfg) = Self
    /\ \A tree \in LoaderTrees :
          LET once == loadConfiguration(Self, tree)
          IN /\ loadConfiguration(once, tree) = once
             /\ once.queuedJobs = queuedJobs
             /\ once.activeJobs = activeJobs

\* a context read from a file holds a run, a job has a description and
\* another job got its default context pattern when it was queued
C14_Witness ==
    /\ \E n \in DOMAIN cfg.contexts : ctxHeap[contexts[n]].busyExecutors > 0
    /\ "alpha" \in DOMAIN jobDescriptions
    /\ "beta" \in DOMAIN jobContexts /\ "beta" \notin DOMAIN cfg.jobs
    /\ queuedJobs # <<>>

\* a load of files without any context file, from the present state
LoadedWithoutContexts ==
    { loadConfiguration(Self, tree) : tree \in { t \in ConfigTrees : DOMAIN t.contexts = {} } }

\* C15: the registry is never empty. With context files it holds exactly the
\* contexts of the files, so a context whose file disappeared is gone; without
\* any it holds exactly "default". A load without context files keeps a
\* default context that is there as the same record, busyExecutors included,
\* and otherwise creates a new one with 6 executors and none busy
C15_RegistryAfterLoad ==
    /\ DOMAIN contexts # {}
    /\ DOMAIN contexts = IF DOMAIN cfg.contexts = {} THEN {"default"} ELSE DOMAIN cfg.contexts
    /\ \A st \in LoadedWithoutContexts :
          /\ DOMAIN st.contexts = {"default"}
          /\ IF "default" \in DOMAIN contexts
             THEN /\ st.contexts["default"] = contexts["default"]
                  /\ st.ctxHeap[st.contexts["default"]] = ctxHeap[contexts["default"]]
             ELSE /\ st.contexts["default"] \notin DOMAIN ctxHeap
                  /\ st.ctxHeap[st.contexts["default"]] =
                        [name |-> "default", numExecutors |-> 6, busyExecutors |-> 0,
                         jobPatterns |-> {}]

\* the last context file disappeared while a run held its context: the
\* registry is the default context, created then, which now holds a run too
C15_Witness ==
    /\ DOMAIN contexts = {"default"}
    /\ \E i \in DOMAIN activeJobs : activeJobs[i].context \notin Range(contexts)
    /\ ctxHeap[contexts["default"]].busyExecutors > 0

\* C19: the row that goes with a job_started notification already has
\* startedAt and node, the row that goes with a job_completed notification
\* already has completedAt and result, and the table keeps them afterwards
C19_PersistedBeforeNotified ==
    \A i \in DOMAIN events :
        LET e == events[i]
            now == RowOf(builds, e.name, e.number)
        IN /\ e.type = "job_started" =>
                 /\ e.row.startedAt # NULL /\ e.row.node # "NULL"
                 /\ now.startedAt = e.row.startedAt /\ now.node = e.row.node
           /\ e.type = "job_completed" =>
                 /\ e.row.completedAt # NULL /\ e.row.result # "NULL"
                 /\ e.row.result = e.result
                 /\ now.completedAt = e.row.completedAt /\ now.result = e.row.result

\* a run that was queued here has been announced as started and as completed
C19_Witness ==
    \E i, j \in DOMAIN events :
        /\ events[i].type = "job_started" /\ events[j].type = "job_completed"
        /\ events[i].name = events[j].name /\ events[i].number = events[j].number
        /\ i < j

\* the rows of job name completed before time t
CompletedBefore(name, t) ==
    { row \in builds : row.name = name /\ row.completedAt # NULL /\ row.completedAt < t }

\* C20 as stated: the hint an active run got at its start is the result of
\* the run of its job that completed last before the start, and "unknown"
\* only if none had completed; rows without completedAt do not count
C20_AsStated ==
    \A i \in DOMAIN activeJobs :
        LET r == activeJobs[i]
            done == CompletedBefore(r.name, RowOf(builds, r.name, r.build).startedAt)
            last == CHOOSE row \in done : \A other \in done : other.completedAt <= row.completedAt
        IN r.lastResult = IF done = {} THEN "unknown" ELSE last.result

\* C18 as stated: handleLogRequest gives the live log with complete = false
\* for an active run, the persisted output with complete = true for a
\* completed run, and returns false for a run that is queued or does not exist
C18_AsStated ==
    \A name \in JobNames, num \in 1 .. (MaxPre + TimedRuns + 1) :
        LET got == handleLogRequest(Self, name, num)
            rows == { row \in builds : row.name = name /\ row.number = num }
        IN IF \E i \in DOMAIN activeJobs : RunKey(activeJobs[i]) = <<name, num>>
           THEN /\ got.ret = "true" /\ got.complete = FALSE
                /\ \E i \in DOMAIN activeJobs :
                      RunKey(activeJobs[i]) = <<name, num>> /\ got.output = activeJobs[i].log
           ELSE IF \E row \in rows : row.completedAt # NULL
           THEN /\ got.ret = "true" /\ got.complete = TRUE
                /\ \E row \in rows : got.output = row.output
           ELSE got.ret = "false"

\* the directories handleRunFinished removes when the run at position i ends
Removed(i) ==
    UNION { rundirs \ st.rundirs : st \in UNION { handleRunFinished(Self, i, result) :
                                                  result \in ExitResults(activeJobs[i]) } }

\* the active runs of the job of the run at position i, that run excepted
Siblings(i) ==
    { j \in DOMAIN activeJobs : j # i /\ activeJobs[j].name = activeJobs[i].name }

\* C16 as stated: when a run of job n completes, no directory run/n/k with
\* k >= oldestActive - numKeepRunDirs + 1 is removed, oldestActive being the
\* smallest build among the runs of n still active, less one, or buildNums[n]
\* if there is none; so the directory of a run still active stays
C16_AsStated ==
    \A i \in DOMAIN activeJobs :
        LET n == activeJobs[i].name
            oldestActive == IF Siblings(i) = {} THEN buildNums[n]
                            ELSE Min({ activeJobs[j].build : j \in Siblings(i) }) - 1
        IN /\ \A d \in Removed(i) : d[1] = n /\ d[2] < oldestActive - numKeepRunDirs + 1
           /\ \A j \in Siblings(i) : RunKey(activeJobs[j]) \notin Removed(i)

\* C17: when a run of job n completes with no other run of n active, the
\* directories removed are run/n/k for k from buildNums[n] - numKeepRunDirs
\* down to the first k whose directory does not exist; directories above
\* buildNums[n] - numKeepRunDirs stay, and with numKeepRunDirs >= buildNums[n]
\* nothing is removed
C17_RemovalSet ==
    \A i \in DOMAIN activeJobs :
        Siblings(i) = {} =>
            LET n == activeJobs[i].name
                top == buildNums[n] - numKeepRunDirs
            IN /\ Removed(i) = { <<n, k>> : k \in { m \in 1 .. top :
                                     \A j \in m .. top : <<n, j>> \in rundirs } }
               /\ numKeepRunDirs >= buildNums[n] => Removed(i) = {}

\* with two directories kept, build 3 was the last of builds 3, 4 and 5 to
\* complete: its directory, made when it started, is gone with those below
\* it, and those of 4 and 5 are there
C17_Witness ==
    /\ numKeepRunDirs = 2
    /\ buildNums["alpha"] = 5
    /\ activeJobs = <<>>
    /\ "alpha" \in DOMAIN latest /\ latest["alpha"] = 3
    /\ rundirs = { <<"alpha", 4>>, <<"alpha", 5>> }

\* C21 as stated: the queueIndex of a job_queued and of a job_started
\* notification is the zero-based place the run has in queuedJobs when the
\* notification is made
C21_AsStated ==
    \A i \in DOMAIN events :
        events[i].type \in {"job_queued", "job_started"} =>
            events[i].queueIndex = events[i].position

\* the log notifications about run key, in the order they were made
RECURSIVE LogOf(_, _)
LogOf(evs, key) ==
    IF evs = <<>> THEN <<>>
    ELSE LET e == evs[Len(evs)]
             before == LogOf(SubSeq(evs, 1, Len(evs) - 1), key)
         IN IF <<e.name, e.number>> = key THEN Append(before, e) ELSE before

\* C22: the chunks notified for a run, all with complete = false, are in
\* their order the run's log; a completed run has after them one notification
\* with an empty chunk and complete = true, made after its job_completed, and
\* none behind it, and its persisted output is the notified chunks in order;
\* a queued run has none
C22_LogStream ==
    /\ \A i \in DOMAIN activeJobs :
          LET log == LogOf(logEvents, RunKey(activeJobs[i]))
          IN /\ \A j \in DOMAIN log : ~log[j].complete
             /\ [j \in DOMAIN log |-> log[j].chunk] = activeJobs[i].log
    /\ \A i \in DOMAIN queuedJobs : LogOf(logEvents, RunKey(queuedJobs[i])) = <<>>
    /\ \A c \in DOMAIN events :
          events[c].type = "job_completed" =>
              LET key == <<events[c].name, events[c].number>>
                  log == LogOf(logEvents, key)
                  n == Len(log)
              IN /\ n >= 1
                 /\ log[n].complete /\ log[n].chunk = "" /\ log[n].after >= c
                 /\ \A j \in 1 .. (n - 1) : ~log[j].complete /\ log[j].after < c
                 /\ RowOf(builds, key[1], key[2]).output =
                       [j \in 1 .. (n - 1) |-> log[j].chunk]

\* a run has completed whose child wrote two different chunks
C22_Witness ==
    \E c \in DOMAIN events :
        /\ events[c].type = "job_completed"
        /\ Len(events[c].row.output) = 2
        /\ events[c].row.output[1] # events[c].row.output[2]

\* the runs on Context id that are active in st and not in the present state
StartedOnIn(st, id) ==
    { j \in DOMAIN st.activeJobs :
        /\ st.activeJobs[j].context = id
        /\ \A i \in DOMAIN activeJobs : RunKey(activeJobs[i]) # RunKey(st.activeJobs[j]) }

\* C23: the Context an active run references exists, whatever the reloads
\* did to the registry since, and is the one the run was started on; when
\* the run ends, that record and no other loses one busy executor (the
\* dispatch pass that ends handleRunFinished adds one for each run it starts)
C23_ContextRefsValid ==
    \A i \in DOMAIN activeJobs :
        LET r == activeJobs[i]
        IN /\ r.context \in DOMAIN ctxHeap
           /\ ctxHeap[r.context].name = RowOf(builds, r.name, r.build).node
           /\ \A st \in Reaped(i) : \A id \in DOMAIN ctxHeap :
                 /\ id \in DOMAIN st.ctxHeap
                 /\ st.ctxHeap[id].busyExecutors =
                       ctxHeap[id].busyExecutors - (IF id = r.context THEN 1 ELSE 0)
                       + Cardinality(StartedOnIn(st, id))

\* a run holds a context whose file disappeared, and a later reload has put
\* another context of the same name into the registry
C23_Witness ==
    \E i \in DOMAIN activeJobs :
        LET c == activeJobs[i].context
        IN /\ c \notin Range(contexts)
           /\ ctxHeap[c].name \in DOMAIN contexts

\* C24 as stated: also when a database statement has failed, between
\* handlers busyExecutors of every context counts the runs that hold it, no
\* run whose child was reaped is left in activeJobs, and no queued run has a
\* registered context that would take it
C24_AsStated ==
    /\ BusyCountsActiveRunsIn(Self)
    /\ \A i \in DOMAIN activeJobs : ~activeJobs[i].reaped
    /\ \A j \in DOMAIN queuedJobs : ~Placeable(queuedJobs[j])

\* C25 as stated: between handlers, a job without a .conf file, or whose
\* .conf has no CONTEXTS, has no other context patterns than "default"
C25_AsStated ==
    \A name \in RunFiles :
        LET conf == ConfGet(cfg.jobs, name, EmptyMap)
        IN ConfGet(conf, "CONTEXTS", <<>>) = <<>> /\ name \in DOMAIN jobContexts =>
               jobContexts[name] = {"default"}

\* C26: between handlers no queued run has a registered context whose
\* canQueue holds for it
C26_WorkConserving ==
    \A j \in DOMAIN queuedJobs :
        \A id \in Range(contexts) : ~canQueue(Self, ctxHeap[id], queuedJobs[j])

\* a run is waiting in the queue although a run that was started after it
\* was queued has completed since: the pass that followed could not place it
C26_Witness ==
    \E h \in DOMAIN queuedJobs :
        \E i \in EventsOf("job_queued", RunKey(queuedJobs[h])), k \in DOMAIN events :
            i < k /\ events[k].type = "job_completed"

\* the job is eligible for a registered context that has an executor
HasContext(name) ==
    /\ name \in DOMAIN jobContexts
    /\ \E id \in Range(contexts) :
          ctxHeap[id].numExecutors >= 1 /\ Eligible(ctxHeap[id], name, jobContexts)

\* every run that was queued and whose job has a context has completed
QueuedRunsCompleted ==
    \A i \in DOMAIN events :
        events[i].type = "job_queued" /\ HasContext(events[i].name) =>
            EventsOf("job_completed", <<events[i].name, events[i].number>>) # {}

\* C27: with finitely many submissions, if every started child exits and is
\* reaped, so that again and again no run is active, then again and again
\* every run queued so far whose job is eligible for a registered context
\* with an executor has been started and has completed: none stays queued
\* for ever, whatever reloads came before
C27_QueuedRunsComplete == []<>(activeJobs = <<>>) => []<>QueuedRunsCompleted

\* a run that had to wait for the executor another run held has completed
C27_Witness ==
    \E i, k, j, c \in DOMAIN events :
        /\ i < k /\ k < j /\ j < c
        /\ events[i].type = "job_queued" /\ events[k].type = "job_completed"
        /\ events[j].type = "job_started" /\ events[c].type = "job_completed"
        /\ <<events[i].name, events[i].number>> = <<events[j].name, events[j].number>>
        /\ <<events[j].name, events[j].number>> = <<events[c].name, events[c].number>>

\* the job_started notifications of run (name, number)
StartedAt(name, number) == EventsOf("job_started", <<name, number>>)

\* C28: of two runs of one job the one with the smaller build number is
\* started first, unless the other was put at the front of the queue while
\* the first was waiting in it. A run put at the back is notified with the
\* queueIndex size - 1, which is 0 only for a queue that was empty
C28_PerJobFifo ==
    \A i, j \in DOMAIN events :
        LET a == events[i]
            b == events[j]
        IN /\ a.type = "job_queued" /\ b.type = "job_queued"
           /\ a.name = b.name /\ a.number < b.number
           /\ StartedAt(b.name, b.number) # {}
           => \/ \E sa \in StartedAt(a.name, a.number), sb \in StartedAt(b.name, b.number) : sa < sb
              \/ /\ b.queueIndex = 0
                 /\ \A sa \in StartedAt(a.name, a.number) : j < sa

\* two runs of one job, the second put at the back of the queue while the
\* first was waiting, were started by a later handler in the order of their
\* builds, after a run of another job was put in front of them
C28_Witness ==
    \E i, j, k \in DOMAIN events :
        /\ i < j /\ j < k
        /\ events[i].type = "job_queued" /\ events[j].type = "job_queued"
        /\ events[k].type = "job_queued"
        /\ events[i].name = events[j].name /\ events[k].name # events[i].name
        /\ events[j].queueIndex = 1 /\ events[k].queueIndex = 0 /\ events[k].position = 0
        /\ \E sa \in StartedAt(events[i].name, events[i].number),
              sb \in StartedAt(events[j].name, events[j].number) : k < sa /\ sa < sb

RECURSIVE SumBusy(_)
SumBusy(ids) ==
    IF ids = {} THEN 0
    ELSE LET id == CHOOSE x \in ids : TRUE
         IN ctxHeap[id].busyExecutors + SumBusy(ids \ {id})

executorsBusy == SumBusy(Range(contexts))

\* C30 as stated: between handlers executorsBusy equals the number of runs in
\* activeJobs
C30_AsStated == executorsBusy = Len(activeJobs)

\* C30 amended: between handlers executorsBusy equals the number of active
\* runs whose context is in the registry; a run that holds a context whose
\* file disappeared is not counted. Without such a run it is the number of
\* runs in activeJobs
C30_Amended ==
    executorsBusy =
        Cardinality({ i \in DOMAIN activeJobs : activeJobs[i].context \in Range(contexts) })

\* one run holds a context that has left the registry, another holds a
\* registered one: executorsBusy is 1 with two runs active
C30_Witness ==
    /\ Len(activeJobs) = 2
    /\ executorsBusy = 1
    /\ \E i \in DOMAIN activeJobs : activeJobs[i].context \notin Range(contexts)

====
